---------------------------- MODULE Spec2Model ----------------------------
(***************************************************************************)
(* Model of distance_and_force.ino: an Arduino sketch that polls a framed  *)
(* serial distance sensor and an analog force sensor, smooths both with a  *)
(* scalar Kalman filter followed by a 20-slot moving average, and prints   *)
(* one line every SEND_INTERVAL milliseconds once its buffer latch is set. *)
(*                                                                         *)
(* Target ABI (every Arduino core): byte = 8 bits, long and unsigned long  *)
(* = 32 bits, float = IEEE-754 binary32 with round-to-nearest-even.        *)
(* TLC's integers are 32-bit, so 32-bit program values are kept as pairs   *)
(* of 16-bit halves and floats as sign / integer significand / exponent.   *)
(***************************************************************************)
EXTENDS Integers, Sequences, FiniteSets, TLC

(***************************************************************************)
(* binary32 arithmetic.  A float is [s, m, e] with value (-1)^s * m * 2^e; *)
(* normal numbers have 2^23 <= m < 2^24, subnormals have e = -149 and      *)
(* m < 2^23, zero is m = 0, e = 0.  An infinity is m = 0, e = EMax + 1;    *)
(* NaN (one value: its sign and payload are not told apart) is m = 1,      *)
(* e = EMax + 1.  FloatsInRange states that no value of the sketch's own   *)
(* runs is an infinity or NaN.                                             *)
(***************************************************************************)
MantBits == 24
EMin == -149
EMax == 104

Pow2(n) == 2 ^ n

\* Number of significant bits of M, 1 <= M < 2^30.
BitLen(M) == CHOOSE n \in 1..30 : M \div Pow2(n - 1) = 1

FZero(s) == [s |-> s, m |-> 0, e |-> 0]
FInf(s) == [s |-> s, m |-> 0, e |-> EMax + 1]
FNaN == [s |-> 0, m |-> 1, e |-> EMax + 1]

IsNaN(a) == a.e > EMax /\ a.m # 0
IsInf(a) == a.e > EMax /\ a.m = 0
IsZero(a) == a.e <= EMax /\ a.m = 0

\* A rounded result too large for binary32 is an infinity.
Overflow(r) == IF r.e > EMax THEN FInf(r.s) ELSE r

\* Round the exact value (-1)^s * (M + t) * 2^E, where 0 < t < 1 iff sticky,
\* to the nearest binary32, ties to even.  1 <= M < 2^30.
FRound(s, M, E, sticky) ==
  IF M = 0 THEN FZero(s)
  ELSE LET n   == BitLen(M)
           sh  == IF E + (n - MantBits) < EMin THEN EMin - E ELSE n - MantBits
       IN  Overflow(
           IF sh <= 0 THEN [s |-> s, m |-> M * Pow2(-sh), e |-> E + sh]
           ELSE IF sh > 30 THEN FZero(s)
           ELSE LET q    == M \div Pow2(sh)
                    r    == M % Pow2(sh)
                    half == Pow2(sh - 1)
                    up   == r > half \/ (r = half /\ (sticky \/ q % 2 = 1))
                    q1   == IF up THEN q + 1 ELSE q
                IN  IF q1 = 0 THEN FZero(s)
                    ELSE IF q1 = Pow2(MantBits)
                         THEN [s |-> s, m |-> Pow2(MantBits - 1), e |-> E + sh + 1]
                         ELSE [s |-> s, m |-> q1, e |-> E + sh])

\* A nonzero float with its significand shifted up to 24 bits (the exponent
\* of a subnormal goes below EMin; used inside products and quotients only).
FNorm(a) ==
  LET k == MantBits - BitLen(a.m)
  IN  [s |-> a.s, m |-> a.m * Pow2(k), e |-> a.e - k]

FNeg(a) == IF IsNaN(a) THEN a ELSE [s |-> 1 - a.s, m |-> a.m, e |-> a.e]

\* a + b.  The operand with the larger exponent keeps three guard bits; the
\* other is aligned to it, the bits shifted out jammed into the last one.
FAdd(a, b) ==
  IF IsNaN(a) \/ IsNaN(b) THEN FNaN
  ELSE IF IsInf(a) THEN (IF IsInf(b) /\ a.s # b.s THEN FNaN ELSE a)
  ELSE IF IsInf(b) THEN b
  ELSE IF a.m = 0 /\ b.m = 0 THEN FZero(IF a.s = b.s THEN a.s ELSE 0)
  ELSE IF a.m = 0 THEN b
  ELSE IF b.m = 0 THEN a
  ELSE LET x  == IF a.e >= b.e THEN a ELSE b
           y  == IF a.e >= b.e THEN b ELSE a
           d  == x.e - y.e
           X  == x.m * 8
           Y0 == IF d >= 27 THEN 0 ELSE (y.m * 8) \div Pow2(d)
           st == IF d >= 27 THEN TRUE ELSE (y.m * 8) % Pow2(d) # 0
           Y  == IF st /\ Y0 % 2 = 0 THEN Y0 + 1 ELSE Y0
       IN  IF x.s = y.s THEN FRound(x.s, X + Y, x.e - 3, FALSE)
           ELSE IF X > Y THEN FRound(x.s, X - Y, x.e - 3, FALSE)
           ELSE IF X < Y THEN FRound(y.s, Y - X, x.e - 3, FALSE)
           ELSE FZero(0)

FSub(a, b) == FAdd(a, FNeg(b))

\* a * b: the 48-bit product of the significands in two 24-bit limbs.
FMul(a, b) ==
  IF IsNaN(a) \/ IsNaN(b) THEN FNaN
  ELSE IF IsInf(a) \/ IsInf(b)
       THEN (IF IsZero(a) \/ IsZero(b) THEN FNaN ELSE FInf((a.s + b.s) % 2))
  ELSE IF a.m = 0 \/ b.m = 0 THEN FZero((a.s + b.s) % 2)
  ELSE LET x   == FNorm(a)
           y   == FNorm(b)
           x1  == x.m \div 4096
           x0  == x.m % 4096
           y1  == y.m \div 4096
           y0  == y.m % 4096
           mid == x1 * y0 + x0 * y1
           low == x0 * y0 + (mid % 4096) * 4096
           lo  == low % Pow2(24)
           hi  == x1 * y1 + mid \div 4096 + low \div Pow2(24)
       IN  FRound((a.s + b.s) % 2, hi * 16 + lo \div Pow2(20),
                  x.e + y.e + 20, lo % Pow2(20) # 0)

\* One step of long division: k more quotient bits.  qr = <<q, r>>, r < d.
DivStep(qr, d, k) ==
  <<qr[1] * Pow2(k) + (qr[2] * Pow2(k)) \div d, (qr[2] * Pow2(k)) % d>>

\* a / b: the quotient of the significands to 27 fraction bits.
FDiv(a, b) ==
  IF IsNaN(a) \/ IsNaN(b) THEN FNaN
  ELSE IF IsInf(a) THEN (IF IsInf(b) THEN FNaN ELSE FInf((a.s + b.s) % 2))
  ELSE IF IsInf(b) THEN FZero((a.s + b.s) % 2)
  ELSE IF IsZero(b) THEN (IF IsZero(a) THEN FNaN ELSE FInf((a.s + b.s) % 2))
  ELSE IF a.m = 0 THEN FZero((a.s + b.s) % 2)
  ELSE LET x  == FNorm(a)
           y  == FNorm(b)
           q0 == <<x.m \div y.m, x.m % y.m>>
           q1 == DivStep(q0, y.m, 6)
           q2 == DivStep(q1, y.m, 6)
           q3 == DivStep(q2, y.m, 6)
           q4 == DivStep(q3, y.m, 6)
           q5 == DivStep(q4, y.m, 3)
       IN  FRound((a.s + b.s) % 2, q5[1], x.e - y.e - 27, q5[2] # 0)

\* a < b, a <= b and |a| as C compares floats: a comparison with NaN is
\* false, -0 equals +0.
MagLt(a, b) ==
  IF IsZero(a) THEN ~IsZero(b)
  ELSE IF IsZero(b) THEN FALSE
  ELSE a.e < b.e \/ (a.e = b.e /\ a.m < b.m)

FLt(a, b) ==
  /\ ~IsNaN(a)
  /\ ~IsNaN(b)
  /\ IF IsZero(a) /\ IsZero(b) THEN FALSE
     ELSE IF a.s # b.s THEN a.s = 1
     ELSE IF a.s = 0 THEN MagLt(a, b)
     ELSE MagLt(b, a)

FLe(a, b) == ~IsNaN(a) /\ ~IsNaN(b) /\ ~FLt(b, a)

FAbs(a) == [s |-> 0, m |-> a.m, e |-> a.e]

\* (float) of an int 0 <= n < 2^29.
FromInt(n) == FRound(0, n, 0, FALSE)


\* Float literals of the sketch, as the compiler rounds them to binary32.
F0 == FZero(0)
F1 == FromInt(1)
F0_01 == [s |-> 0, m |-> 10737418, e |-> -30]
F0_1 == [s |-> 0, m |-> 13421773, e |-> -27]
F0_5 == [s |-> 0, m |-> 8388608, e |-> -24]
F100 == FromInt(100)

(***************************************************************************)
(* 32-bit unsigned arithmetic (unsigned long) on pairs <<hi, lo>> of       *)
(* 16-bit halves: the value is hi * 2^16 + lo, all results are mod 2^32.   *)
(***************************************************************************)
Half == 65536

U32(n) == <<n \div Half, n % Half>>

\* a + n mod 2^32, for a small n >= 0.
U32Add(a, n) ==
  LET lo == a[2] + n
  IN  <<(a[1] + lo \div Half) % Half, lo % Half>>

\* a - b mod 2^32.
U32Sub(a, b) ==
  LET lo == a[2] - b[2]
      br == IF lo < 0 THEN 1 ELSE 0
  IN  <<(a[1] - b[1] - br + Half) % Half, (lo + Half) % Half>>

\* a >= n, for 0 <= n < 2^16.
U32Ge(a, n) == a[1] > 0 \/ a[2] >= n

(***************************************************************************)
(* Program constants.                                                      *)
(***************************************************************************)
HISTORY_SIZE == 20
SEND_INTERVAL == 100
PAYLOAD_LEN == 8
SYNC_AC == 172
SYNC_CA == 202
TRAILER_DC == 220
TRAILER_CD == 205
ADC_MAX == 1023
FORCE_MAX == 200

Byte == 0..255
\* The result of a poll of irSensorSerial that finds available() = 0.
NoByte == -1

ReadyLine == <<"Arduino is Ready">>

VARIABLES
  pc,                   \* where the sketch is: setup, or a statement of loop()
  state,                \* processDistanceSensor's static state
  payloadBuffer,        \* its static payloadBuffer[8]
  bufferIndex,          \* its static bufferIndex
  distanceKalman,       \* SimpleKalmanFilter: [Q, R, P, K, x]
  forceKalman,
  distanceHistory,      \* float[HISTORY_SIZE], indexed from 0
  forceHistory,
  distanceHistoryIndex,
  forceHistoryIndex,
  bufferIsFull,
  stable_distance_mm,
  stable_force_N,
  lastSendTime,         \* unsigned long
  clock,                \* millis(): unsigned long milliseconds since boot
  rx,                   \* what the coming polls of irSensorSerial will find
  forceIn,              \* what the coming analogRead(FORCE_SENSOR_PIN) return
  serialOut,            \* the lines written to Serial
  env,                  \* the run: [delays, skews, pressure, horizon, histories]
  iter,                 \* completed iterations of loop()
  fed,                  \* history: the bytes read from irSensorSerial
  delivered,            \* history: the calls of distanceKalman.update
  forcePushed,          \* history: the values stored into forceHistory
  distPushed,           \* history: the values stored into distanceHistory
  pressureReads,        \* history: the results of analogRead(PRESSURE_SENSOR_PIN)
  ticks,                \* history: number of calls of sendAllData
  sinceTick,            \* history: ms since the test that led to the last call
  sinceLast             \* history: ms since lastSendTime was read off the clock

decoderVars == <<state, payloadBuffer, bufferIndex>>
distanceVars == <<distanceKalman, distanceHistory, distanceHistoryIndex,
                  stable_distance_mm>>
forceVars == <<forceKalman, forceHistory, forceHistoryIndex, stable_force_N>>
timeVars == <<lastSendTime, clock, ticks, sinceTick, sinceLast>>
vars == <<pc, decoderVars, distanceVars, forceVars, bufferIsFull, timeVars,
          rx, forceIn, serialOut, env, iter, fed, delivered, forcePushed,
          distPushed, pressureReads>>

(***************************************************************************)
(* A run either keeps its histories and the times millis() returns, and    *)
(* is followed for env.horizon iterations of loop() (env.histories), or is *)
(* followed for ever, with no history kept and time measured from the last *)
(* call of sendAllData: the sketch uses millis() and lastSendTime only     *)
(* through their difference.                                               *)
(***************************************************************************)
Hist(old, new) == IF env.histories THEN new ELSE old

Epoch(t) == IF env.histories THEN t ELSE U32(0)

(***************************************************************************)
(* SimpleKalmanFilter                                                      *)
(***************************************************************************)
SimpleKalmanFilter(q, r, p) == [Q |-> q, R |-> r, P |-> p, K |-> F0, x |-> F0]

\* Mutant of update: the gain taken as P / R.
updateGainOverR(k, z) ==
  LET P1 == FAdd(k.P, k.Q)
      K1 == FDiv(P1, k.R)
      x1 == FAdd(k.x, FMul(K1, FSub(z, k.x)))
      P2 == FMul(FSub(F1, K1), P1)
  IN  [Q |-> k.Q, R |-> k.R, P |-> P2, K |-> K1, x |-> x1]

\* update(z): P += Q; K = P / (P + R); x += K * (z - x); P = (1 - K) * P.
update(k, z) ==
  LET P1 == FAdd(k.P, k.Q)
      K1 == FDiv(P1, FAdd(P1, k.R))
      x1 == FAdd(k.x, FMul(K1, FSub(z, k.x)))
      P2 == FMul(FSub(F1, K1), P1)
  IN  [Q |-> k.Q, R |-> k.R, P |-> P2, K |-> K1, x |-> x1]

mapFloat(x, in_min, in_max, out_min, out_max) ==
  FAdd(FDiv(FMul(FSub(x, in_min), FSub(out_max, out_min)),
            FSub(in_max, in_min)),
       out_min)

(***************************************************************************)
(* The history window: store at the index, sum every slot from 0 up,      *)
(* divide by HISTORY_SIZE, advance the index modulo HISTORY_SIZE.          *)
(***************************************************************************)
RECURSIVE SumSlots(_, _)
\* sum = 0.0; for (i = 0; i < n; ++i) sum += h[i];
SumSlots(h, n) == IF n = 0 THEN F0 ELSE FAdd(SumSlots(h, n - 1), h[n - 1])

Store(h, i, v) == [h EXCEPT ![i] = v]

\* Mutant of Mean: the loop stops one slot short.
MeanOffByOne(h) == FDiv(SumSlots(h, HISTORY_SIZE - 1), FromInt(HISTORY_SIZE))

Mean(h) == FDiv(SumSlots(h, HISTORY_SIZE), FromInt(HISTORY_SIZE))

\* Mutant of NextIndex: the index advances by two.
NextIndexSkip(i) == (i + 2) % HISTORY_SIZE

NextIndex(i) == (i + 1) % HISTORY_SIZE

(***************************************************************************)
(* Frame decoding                                                          *)
(***************************************************************************)
\* Mutants of ValidFrame: the sentinel test left out; the last trailer byte
\* not tested.
ValidFrameNoSentinel(p) == p[6] = TRAILER_DC /\ p[7] = TRAILER_CD
ValidFrameShortTrailer(p) == p[5] # 0 /\ p[6] = TRAILER_DC

ValidFrame(p) == p[5] # 0 /\ p[6] = TRAILER_DC /\ p[7] = TRAILER_CD

\* ((long)p[1] << 24) | ((long)p[2] << 16) | ((long)p[3] << 8) | (long)p[4]
\* as a 32-bit two's-complement long: [neg, hi, lo], magnitude hi * 2^16 + lo.
\* Mutant of RawDist: the four bytes taken little-endian.
RawDistLittleEndian(p) ==
  LET hi == p[4] * 256 + p[3]
      lo == p[2] * 256 + p[1]
  IN  IF hi < Half \div 2
      THEN [neg |-> FALSE, hi |-> hi, lo |-> lo]
      ELSE [neg |-> TRUE,
            hi  |-> (Half - 1 - hi) + (IF lo = 0 THEN 1 ELSE 0),
            lo  |-> (Half - lo) % Half]

RawDist(p) ==
  LET hi == p[1] * 256 + p[2]
      lo == p[3] * 256 + p[4]
  IN  IF hi < Half \div 2
      THEN [neg |-> FALSE, hi |-> hi, lo |-> lo]
      ELSE [neg |-> TRUE,
            hi  |-> (Half - 1 - hi) + (IF lo = 0 THEN 1 ELSE 0),
            lo  |-> (Half - lo) % Half]

\* (float) of a long.
LongToFloat(r) ==
  LET sg == IF r.neg THEN 1 ELSE 0
  IN  IF r.hi < 4096
      THEN FRound(sg, r.hi * Half + r.lo, 0, FALSE)
      ELSE FRound(sg, r.hi * 4096 + r.lo \div 16, 4, r.lo % 16 # 0)

\* (float)raw_dist / 100.0f
Measurement(p) == FDiv(LongToFloat(RawDist(p)), F100)

\* Mutants of DecoderStep: a repeated 0xAC keeps the decoder waiting for
\* 0xCA; a payload byte 0xAC restarts the search for the sync pair; the index
\* is not reset when the second sync byte is awaited.
DecoderStepStayOnAC(st, buf, idx, b) ==
  CASE st = "WAITING_FOR_AC" ->
         [state |-> IF b = SYNC_AC THEN "WAITING_FOR_CA" ELSE "WAITING_FOR_AC",
          payloadBuffer |-> buf, bufferIndex |-> idx, complete |-> FALSE]
    [] st = "WAITING_FOR_CA" ->
         [state |-> IF b = SYNC_CA THEN "READING_PAYLOAD"
                    ELSE IF b = SYNC_AC THEN "WAITING_FOR_CA"
                    ELSE "WAITING_FOR_AC",
          payloadBuffer |-> buf, bufferIndex |-> 0, complete |-> FALSE]
    [] st = "READING_PAYLOAD" ->
         [state |-> IF idx + 1 >= PAYLOAD_LEN THEN "WAITING_FOR_AC"
                                               ELSE "READING_PAYLOAD",
          payloadBuffer |-> [buf EXCEPT ![idx] = b],
          bufferIndex |-> idx + 1,
          complete |-> idx + 1 >= PAYLOAD_LEN]

DecoderStepRestart(st, buf, idx, b) ==
  CASE st = "WAITING_FOR_AC" ->
         [state |-> IF b = SYNC_AC THEN "WAITING_FOR_CA" ELSE "WAITING_FOR_AC",
          payloadBuffer |-> buf, bufferIndex |-> idx, complete |-> FALSE]
    [] st = "WAITING_FOR_CA" ->
         [state |-> IF b = SYNC_CA THEN "READING_PAYLOAD" ELSE "WAITING_FOR_AC",
          payloadBuffer |-> buf, bufferIndex |-> 0, complete |-> FALSE]
    [] st = "READING_PAYLOAD" /\ b = SYNC_AC ->
         [state |-> "WAITING_FOR_CA",
          payloadBuffer |-> buf, bufferIndex |-> idx, complete |-> FALSE]
    [] st = "READING_PAYLOAD" /\ b # SYNC_AC ->
         [state |-> IF idx + 1 >= PAYLOAD_LEN THEN "WAITING_FOR_AC"
                                               ELSE "READING_PAYLOAD",
          payloadBuffer |-> [buf EXCEPT ![idx] = b],
          bufferIndex |-> idx + 1,
          complete |-> idx + 1 >= PAYLOAD_LEN]

DecoderStepNoReset(st, buf, idx, b) ==
  CASE st = "WAITING_FOR_AC" ->
         [state |-> IF b = SYNC_AC THEN "WAITING_FOR_CA" ELSE "WAITING_FOR_AC",
          payloadBuffer |-> buf, bufferIndex |-> idx, complete |-> FALSE]
    [] st = "WAITING_FOR_CA" ->
         [state |-> IF b = SYNC_CA THEN "READING_PAYLOAD" ELSE "WAITING_FOR_AC",
          payloadBuffer |-> buf, bufferIndex |-> idx, complete |-> FALSE]
    [] st = "READING_PAYLOAD" ->
         [state |-> IF idx + 1 >= PAYLOAD_LEN THEN "WAITING_FOR_AC"
                                               ELSE "READING_PAYLOAD",
          payloadBuffer |-> [buf EXCEPT ![idx % PAYLOAD_LEN] = b],
          bufferIndex |-> idx + 1,
          complete |-> idx + 1 >= PAYLOAD_LEN]

\* One byte through the switch of processDistanceSensor.  complete: this
\* byte was the eighth of a payload.
DecoderStep(st, buf, idx, b) ==
  CASE st = "WAITING_FOR_AC" ->
         [state |-> IF b = SYNC_AC THEN "WAITING_FOR_CA" ELSE "WAITING_FOR_AC",
          payloadBuffer |-> buf, bufferIndex |-> idx, complete |-> FALSE]
    [] st = "WAITING_FOR_CA" ->
         [state |-> IF b = SYNC_CA THEN "READING_PAYLOAD" ELSE "WAITING_FOR_AC",
          payloadBuffer |-> buf, bufferIndex |-> 0, complete |-> FALSE]
    [] st = "READING_PAYLOAD" ->
         [state |-> IF idx + 1 >= PAYLOAD_LEN THEN "WAITING_FOR_AC"
                                               ELSE "READING_PAYLOAD",
          payloadBuffer |-> [buf EXCEPT ![idx] = b],
          bufferIndex |-> idx + 1,
          complete |-> idx + 1 >= PAYLOAD_LEN]

(***************************************************************************)
(* Initial state: the globals and statics as the sketch initialises them,  *)
(* the clock at boot, nothing read or written yet.  The three             *)
(* specifications below differ in the inputs the run will meet.            *)
(***************************************************************************)
InitProgram ==
  /\ pc = "setup"
  /\ state = "WAITING_FOR_AC"
  /\ payloadBuffer = [i \in 0..(PAYLOAD_LEN - 1) |-> 0]
  /\ bufferIndex = 0
  /\ distanceKalman = SimpleKalmanFilter(F0_01, F0_1, F0_5)
  /\ forceKalman = SimpleKalmanFilter(F0_01, F0_1, F0_5)
  /\ distanceHistory = [i \in 0..(HISTORY_SIZE - 1) |-> F0]
  /\ forceHistory = [i \in 0..(HISTORY_SIZE - 1) |-> F0]
  /\ distanceHistoryIndex = 0
  /\ forceHistoryIndex = 0
  /\ bufferIsFull = FALSE
  /\ stable_distance_mm = FNeg(F1)
  /\ stable_force_N = F0
  /\ lastSendTime = U32(0)
  /\ clock = U32(0)
  /\ serialOut = <<>>
  /\ iter = 0
  /\ fed = <<>>
  /\ delivered = <<>>
  /\ forcePushed = <<>>
  /\ distPushed = <<>>
  /\ pressureReads = <<>>
  /\ ticks = 0
  /\ sinceTick = 0
  /\ sinceLast = 0

(***************************************************************************)
(* setup(): the serial ports and pins, then the readiness line.            *)
(***************************************************************************)
\* Mutant of setup: the readiness line is not written.
setupSilent ==
  /\ pc = "setup"
  /\ pc' = "processDistanceSensor"
  /\ UNCHANGED <<decoderVars, distanceVars, forceVars, bufferIsFull, timeVars,
                 rx, forceIn, serialOut, env, iter, fed, delivered, forcePushed,
                 distPushed, pressureReads>>

setup ==
  /\ pc = "setup"
  /\ serialOut' = Append(serialOut, ReadyLine)
  /\ pc' = "processDistanceSensor"
  /\ UNCHANGED <<decoderVars, distanceVars, forceVars, bufferIsFull, timeVars,
                 rx, forceIn, env, iter, fed, delivered, forcePushed,
                 distPushed, pressureReads>>

(***************************************************************************)
(* loop(), first statement: processDistanceSensor().  At most one byte is  *)
(* read; a valid completed frame goes through the distance filter and      *)
(* window.                                                                 *)
(***************************************************************************)
processDistanceSensor ==
  /\ pc = "processDistanceSensor"
  /\ iter < env.horizon
  /\ LET b == IF rx = <<>> THEN NoByte ELSE Head(rx)
         d == DecoderStep(state, payloadBuffer, bufferIndex, b)
     IN  /\ rx' = IF rx = <<>> THEN rx ELSE Tail(rx)
         /\ IF b = NoByte
            THEN UNCHANGED <<decoderVars, distanceVars, fed, delivered,
                             distPushed>>
            ELSE /\ state' = d.state
                 /\ payloadBuffer' = d.payloadBuffer
                 /\ bufferIndex' = d.bufferIndex
                 /\ fed' = Hist(fed, Append(fed, b))
                 /\ IF d.complete /\ ValidFrame(d.payloadBuffer)
                    THEN LET z == Measurement(d.payloadBuffer)
                             k == update(distanceKalman, z)
                             h == Store(distanceHistory, distanceHistoryIndex, k.x)
                         IN  /\ distanceKalman' = k
                             /\ distanceHistory' = h
                             /\ stable_distance_mm' = Mean(h)
                             /\ distanceHistoryIndex' = NextIndex(distanceHistoryIndex)
                             /\ delivered' = Hist(delivered,
                                    Append(delivered,
                                      [at |-> Len(fed) + 1,
                                       payload |-> d.payloadBuffer, z |-> z]))
                             /\ distPushed' = Hist(distPushed,
                                                   Append(distPushed, k.x))
                    ELSE UNCHANGED <<distanceVars, delivered, distPushed>>
  /\ pc' = "processForceSensor"
  /\ UNCHANGED <<forceVars, bufferIsFull, timeVars, forceIn, serialOut, env,
                 iter, forcePushed, pressureReads>>

(***************************************************************************)
(* loop(), second statement: processForceSensor().                         *)
(***************************************************************************)
processForceSensor ==
  /\ pc = "processForceSensor"
  /\ LET rawForce == mapFloat(FromInt(Head(forceIn)), F0, FromInt(ADC_MAX),
                              F0, FromInt(FORCE_MAX))
         k == update(forceKalman, rawForce)
         h == Store(forceHistory, forceHistoryIndex, k.x)
     IN  /\ forceKalman' = k
         /\ forceHistory' = h
         /\ stable_force_N' = Mean(h)
         /\ forceHistoryIndex' = NextIndex(forceHistoryIndex)
         /\ forcePushed' = Hist(forcePushed, Append(forcePushed, k.x))
  /\ forceIn' = IF Len(forceIn) > 1 THEN Tail(forceIn) ELSE forceIn
  /\ pc' = "millis"
  /\ UNCHANGED <<decoderVars, distanceVars, bufferIsFull, timeVars, rx,
                 serialOut, env, iter, fed, delivered, distPushed,
                 pressureReads>>

(***************************************************************************)
(* The time the iteration has taken when loop() reads millis() for its     *)
(* test.                                                                   *)
(***************************************************************************)
millis ==
  /\ pc = "millis"
  /\ \E dt \in env.delays :
       /\ clock' = U32Add(clock, dt)
       /\ sinceTick' = sinceTick + dt
       /\ sinceLast' = sinceLast + dt
  /\ pc' = "if"
  /\ UNCHANGED <<decoderVars, distanceVars, forceVars, bufferIsFull,
                 lastSendTime, ticks, rx, forceIn, serialOut, env, iter, fed,
                 delivered, forcePushed, distPushed, pressureReads>>

\* float processPressureSensor(), for a result a of analogRead.
processPressureSensor(a) == mapFloat(FromInt(a), F0, FromInt(ADC_MAX), F0, F1)

(***************************************************************************)
(* sendAllData(): while the latch is unset, set it if either index is at   *)
(* the last slot and print nothing; afterwards print one line.             *)
(***************************************************************************)
\* Mutant of sendAllData: the test of the latch inverted.
sendAllDataInverted ==
  IF bufferIsFull
  THEN /\ bufferIsFull' = (distanceHistoryIndex >= HISTORY_SIZE - 1
                           \/ forceHistoryIndex >= HISTORY_SIZE - 1)
       /\ UNCHANGED <<serialOut, pressureReads>>
  ELSE /\ \E a \in env.pressure :
            /\ pressureReads' = Hist(pressureReads, Append(pressureReads, a))
            /\ serialOut' = Hist(serialOut, Append(serialOut,
                  <<stable_force_N, stable_distance_mm,
                    processPressureSensor(a)>>))
       /\ UNCHANGED bufferIsFull

\* Mutant of sendAllData: the latch is set as soon as an index has moved.
sendAllDataEarlyLatch ==
  IF ~bufferIsFull
  THEN /\ bufferIsFull' = (distanceHistoryIndex >= 1 \/ forceHistoryIndex >= 1)
       /\ UNCHANGED <<serialOut, pressureReads>>
  ELSE /\ \E a \in env.pressure :
            /\ pressureReads' = Hist(pressureReads, Append(pressureReads, a))
            /\ serialOut' = Hist(serialOut, Append(serialOut,
                  <<stable_force_N, stable_distance_mm,
                    processPressureSensor(a)>>))
       /\ UNCHANGED bufferIsFull

\* Mutant of sendAllData: the flag is computed afresh at every call.
sendAllDataRecomputed ==
  /\ bufferIsFull' = (distanceHistoryIndex >= HISTORY_SIZE - 1
                      \/ forceHistoryIndex >= HISTORY_SIZE - 1)
  /\ IF bufferIsFull
     THEN \E a \in env.pressure :
            /\ pressureReads' = Hist(pressureReads, Append(pressureReads, a))
            /\ serialOut' = Hist(serialOut, Append(serialOut,
                  <<stable_force_N, stable_distance_mm,
                    processPressureSensor(a)>>))
     ELSE UNCHANGED <<serialOut, pressureReads>>

\* Mutant of sendAllData: no return after the latch is set.
sendAllDataNoReturn ==
  LET full == \/ bufferIsFull
              \/ distanceHistoryIndex >= HISTORY_SIZE - 1
              \/ forceHistoryIndex >= HISTORY_SIZE - 1
  IN  /\ bufferIsFull' = full
      /\ IF full
         THEN \E a \in env.pressure :
                /\ pressureReads' = Hist(pressureReads, Append(pressureReads, a))
                /\ serialOut' = Hist(serialOut, Append(serialOut,
                      <<stable_force_N, stable_distance_mm,
                        processPressureSensor(a)>>))
         ELSE UNCHANGED <<serialOut, pressureReads>>

sendAllData ==
  IF ~bufferIsFull
  THEN /\ bufferIsFull' = (distanceHistoryIndex >= HISTORY_SIZE - 1
                           \/ forceHistoryIndex >= HISTORY_SIZE - 1)
       /\ UNCHANGED <<serialOut, pressureReads>>
  ELSE /\ \E a \in env.pressure :
            /\ pressureReads' = Hist(pressureReads, Append(pressureReads, a))
            /\ serialOut' = Hist(serialOut, Append(serialOut,
                  <<stable_force_N, stable_distance_mm,
                    processPressureSensor(a)>>))
       /\ UNCHANGED bufferIsFull

\* millis() - lastSendTime >= SEND_INTERVAL, for the value now of millis().
\* Mutants of Due: > for >=; the test written as
\* millis() >= lastSendTime + SEND_INTERVAL.
DueStrict(now) == U32Ge(U32Sub(now, lastSendTime), SEND_INTERVAL + 1)

DueAbsolute(now) ==
  LET t == U32Add(lastSendTime, SEND_INTERVAL)
  IN  now[1] > t[1] \/ (now[1] = t[1] /\ now[2] >= t[2])

Due(now) == U32Ge(U32Sub(now, lastSendTime), SEND_INTERVAL)

(***************************************************************************)
(* loop(), third statement: the test, and when it holds the second read    *)
(* of millis() (sk ms after the first) and sendAllData().                  *)
(***************************************************************************)
loop ==
  /\ pc = "if"
  /\ IF Due(clock)
     THEN /\ \E sk \in env.skews :
               /\ clock' = Epoch(U32Add(clock, sk))
               /\ lastSendTime' = Epoch(U32Add(clock, sk))
               /\ sinceTick' = sk
          /\ sinceLast' = 0
          /\ ticks' = Hist(ticks, ticks + 1)
          /\ sendAllData
     ELSE UNCHANGED <<timeVars, bufferIsFull, serialOut, pressureReads>>
  /\ iter' = Hist(iter, iter + 1)
  /\ pc' = "processDistanceSensor"
  /\ UNCHANGED <<decoderVars, distanceVars, forceVars, rx, forceIn, env, fed,
                 delivered, forcePushed, distPushed>>

Next == setup \/ processDistanceSensor \/ processForceSensor \/ millis \/ loop

(***************************************************************************)
(* Inputs of the decoder runs: one frame, with what may precede and        *)
(* follow it.  The analog inputs are steady, an iteration takes StepMs.    *)
(***************************************************************************)
StepMs == 5
SteadyAdc == 512
ExtraIter == 1

Sync == <<SYNC_AC, SYNC_CA>>
GoodTrailer == <<TRAILER_DC, TRAILER_CD>>
\* 0x00002710 = 10000
Raw10000 == <<0, 0, 39, 16>>
FrameC1 == Sync \o <<0>> \o Raw10000 \o <<1>> \o GoodTrailer

Preambles == {<<>>, <<NoByte>>, <<SYNC_AC>>, <<SYNC_CA>>, <<SYNC_AC, SYNC_AC>>,
              <<1>>, <<SYNC_AC, 1>>}
Sentinels == {0, 1, 255}
Trailers == {GoodTrailer, <<TRAILER_DC, 0>>, <<0, TRAILER_CD>>,
             <<TRAILER_CD, TRAILER_DC>>}
Followers == {<<>>, Sync \o <<7, 0, 0, 0, 100, 9>> \o GoodTrailer}
RawValues == {Raw10000, <<0, 0, 0, 0>>, <<0, 0, 0, 1>>, <<1, 0, 0, 1>>,
              <<127, 255, 255, 255>>, <<128, 0, 0, 0>>, <<255, 255, 255, 255>>,
              <<SYNC_AC, SYNC_CA, 0, 1>>}

\* The stream of specification section 8: a sync pair and seven more bytes.
NineBytes == <<SYNC_AC, SYNC_CA, 0, 0, 39, 16, 1, TRAILER_DC, TRAILER_CD>>

\* FrameC1 with polls that find nothing between its bytes.
FrameC1Gaps == <<SYNC_AC, NoByte, SYNC_CA, 0, 0, NoByte, NoByte, 0, 39, 16, 1,
                 TRAILER_DC, NoByte, TRAILER_CD>>

\* A frame whose payload holds sync bytes and a zero sentinel; one whose
\* payload starts with the sync pair and is valid.
SyncInBadPayload == Sync \o <<SYNC_AC, SYNC_CA, SYNC_AC, SYNC_CA, SYNC_AC, 0>>
                         \o GoodTrailer
SyncInGoodPayload == Sync \o <<SYNC_AC, SYNC_CA, 0, 39, 16, 1>> \o GoodTrailer

\* A frame, a broken start of a frame, a frame.
ResyncStreams ==
  {FrameC1 \o gap \o FrameC1 :
     gap \in {<<SYNC_AC, SYNC_AC>>, <<SYNC_AC, 1>>, <<SYNC_AC, SYNC_AC, SYNC_AC>>}}
  \cup {SyncInBadPayload \o FrameC1, SyncInGoodPayload \o FrameC1}

DecodeStreams ==
  {NineBytes, NineBytes \o <<TRAILER_CD>>, NineBytes \o <<NoByte, 0>>,
   FrameC1Gaps}
  \cup ResyncStreams
  \cup
  {pre \o Sync \o <<0>> \o Raw10000 \o <<p5>> \o tr \o post :
     pre \in Preambles, p5 \in Sentinels, tr \in Trailers, post \in Followers}
  \cup
  {Sync \o <<p0>> \o v \o <<p5>> \o GoodTrailer :
     p0 \in {0, SYNC_AC}, v \in RawValues, p5 \in {1, 255}}

InitDecode ==
  /\ InitProgram
  /\ rx \in DecodeStreams
  /\ forceIn = <<SteadyAdc>>
  /\ env = [delays |-> {StepMs}, skews |-> {0}, pressure |-> {SteadyAdc},
            horizon |-> Len(rx) + ExtraIter, histories |-> TRUE]

SpecDecode == InitDecode /\ [][Next]_vars

(***************************************************************************)
(* Inputs of the scheduler runs.  Three kinds of run:                      *)
(*  - no bytes arrive, an iteration takes MinDelay..MaxDelay ms;           *)
(*  - no bytes arrive, an iteration takes SlowLoopMs ms (a tick every      *)
(*    second or third iteration);                                          *)
(*  - valid frames arrive back to back, an iteration takes FrameStepMs ms, *)
(*    so that a frame ends and a tick falls every tenth iteration.         *)
(* The second read of millis() comes up to MaxSkew ms after the first.     *)
(***************************************************************************)
MinDelay == 5
MaxDelay == 6
MaxSkew == 1
SchedIters == 40
SlowLoopMs == 50
SlowIters == 44
FrameStepMs == 10
FrameRunFrames == 20

RECURSIVE Repeat(_, _)
Repeat(s, n) == IF n = 0 THEN <<>> ELSE s \o Repeat(s, n - 1)

InitSched ==
  /\ InitProgram
  /\ forceIn = <<SteadyAdc>>
  /\ \/ /\ rx = <<>>
        /\ env = [delays |-> MinDelay..MaxDelay, skews |-> 0..MaxSkew,
                  pressure |-> {0, ADC_MAX}, horizon |-> SchedIters,
                  histories |-> TRUE]
     \/ /\ rx = <<>>
        /\ env = [delays |-> {SlowLoopMs}, skews |-> 0..MaxSkew,
                  pressure |-> {SteadyAdc}, horizon |-> SlowIters,
                  histories |-> TRUE]
     \/ /\ rx = Repeat(FrameC1, FrameRunFrames)
        /\ env = [delays |-> {FrameStepMs}, skews |-> {0},
                  pressure |-> {SteadyAdc},
                  horizon |-> FrameRunFrames * (2 + PAYLOAD_LEN) + ExtraIter,
                  histories |-> TRUE]

SpecSched == InitSched /\ [][Next]_vars

(***************************************************************************)
(* Inputs of the window runs.  Either no bytes arrive and the force input  *)
(* steps once between two levels, or climbs a staircase, over WindowIters  *)
(* iterations (more than HISTORY_SIZE); or the force input is steady and   *)
(* WindowFrames valid frames (more than HISTORY_SIZE) arrive back to back, *)
(* all alike but one, or each with a value of its own.                     *)
(***************************************************************************)
WindowIters == 24
WindowFrames == 22
StairStep == 41

AdcLevels == {0, ADC_MAX}
ForceScripts ==
  {Repeat(<<a>>, k) \o <<b>> : a \in AdcLevels, b \in AdcLevels, k \in 0..WindowIters}
  \cup {[i \in 1..WindowIters |-> (i * StairStep) % (ADC_MAX + 1)]}

\* The payload bytes 1..4 of a raw distance n < 2^24.
RawBytes(n) == <<0, n \div Half, (n \div 256) % 256, n % 256>>
FrameOf(v) == Sync \o <<0>> \o v \o <<1>> \o GoodTrailer

RECURSIVE FramesOf(_)
\* The frames carrying the raw values of the sequence vs, back to back.
FramesOf(vs) ==
  IF vs = <<>> THEN <<>> ELSE FrameOf(Head(vs)) \o FramesOf(Tail(vs))

OddOneOut(k, j) == IF j = k THEN <<127, 255, 255, 255>> ELSE Raw10000
Climb(j) == RawBytes(j * 1000 + 1)

FrameScripts ==
  {FramesOf([j \in 1..WindowFrames |-> OddOneOut(k, j)]) :
     k \in {1, HISTORY_SIZE, HISTORY_SIZE + 1}}
  \cup {FramesOf([j \in 1..WindowFrames |-> Climb(j)])}

InitWindow ==
  /\ InitProgram
  /\ \/ /\ rx = <<>>
        /\ forceIn \in ForceScripts
        /\ env = [delays |-> {StepMs}, skews |-> {0}, pressure |-> {SteadyAdc},
                  horizon |-> WindowIters,
                  histories |-> TRUE]
     \/ /\ rx \in FrameScripts
        /\ forceIn = <<SteadyAdc>>
        /\ env = [delays |-> {StepMs}, skews |-> {0}, pressure |-> {SteadyAdc},
                  horizon |-> Len(rx) + ExtraIter,
                  histories |-> TRUE]

SpecWindow == InitWindow /\ [][Next]_vars

(***************************************************************************)
(* Unending runs: no bytes arrive, the force input is steady, and every    *)
(* iteration takes the same time, one of LiveDelays ms; the second read    *)
(* of millis() falls in the same millisecond as the first.  loop() is      *)
(* called again whenever it returns, so a step is always taken.            *)
(***************************************************************************)
LiveDelays == {StepMs, MaxDelay, SlowLoopMs}

InitLive ==
  /\ InitProgram
  /\ rx = <<>>
  /\ forceIn = <<SteadyAdc>>
  /\ \E d \in LiveDelays :
       env = [delays |-> {d}, skews |-> {0}, pressure |-> {SteadyAdc},
              horizon |-> 1, histories |-> FALSE]

\* The sketch moves on to its next statement.  Every step of Next is such a
\* step and in these runs one is always possible, so weak fairness of
\* Advance is weak fairness of Next: every statement returns and loop() is
\* called again for ever.
Advance ==
  /\ pc' \in {"setup", "processDistanceSensor", "processForceSensor", "millis",
              "if"}
  /\ pc' # pc

SpecLive == InitLive /\ [][Next]_vars /\ WF_pc(Advance)

(***************************************************************************)
(* Runs across the overflow of millis(), 2^32 ms after boot.  The sketch   *)
(* has been running with no bytes arriving and a steady force input: the   *)
(* force filter and window have long been at their fixed point             *)
(* (SettledForce; ForceSettles shows it is reached), the distance channel  *)
(* is as initialised.  The run is taken up at the start of an iteration,   *)
(* the clock WrapBack ms before its overflow, lastSendTime less than       *)
(* SEND_INTERVAL ms before the clock, the latch set or not; the histories  *)
(* start there.  An iteration takes one of WrapDelays ms.                  *)
(***************************************************************************)
WrapIters == 7
WrapBack == {1, SEND_INTERVAL \div 2, SEND_INTERVAL + 1}
WrapAges == {0, SEND_INTERVAL \div 2, SEND_INTERVAL - 1}
WrapDelays == {StepMs, SlowLoopMs}

\* rawForce for the steady input.
SteadyForce ==
  mapFloat(FromInt(SteadyAdc), F0, FromInt(ADC_MAX), F0, FromInt(FORCE_MAX))

\* forceKalman at the fixed point of update(SteadyForce): x = 0x1.906418p+6,
\* P = 0x1.ba9fbap-6, K = 0x1.14a3d4p-2.
SettledForce ==
  [Q |-> F0_01, R |-> F0_1,
   P |-> [s |-> 0, m |-> 14503901, e |-> -29],
   K |-> [s |-> 0, m |-> 9064938, e |-> -25],
   x |-> [s |-> 0, m |-> 13120012, e |-> -17]]

InitWrap ==
  /\ pc = "processDistanceSensor"
  /\ state = "WAITING_FOR_AC"
  /\ payloadBuffer = [i \in 0..(PAYLOAD_LEN - 1) |-> 0]
  /\ bufferIndex = 0
  /\ distanceKalman = SimpleKalmanFilter(F0_01, F0_1, F0_5)
  /\ distanceHistory = [i \in 0..(HISTORY_SIZE - 1) |-> F0]
  /\ distanceHistoryIndex = 0
  /\ stable_distance_mm = FNeg(F1)
  /\ forceKalman = SettledForce
  /\ forceHistory = [i \in 0..(HISTORY_SIZE - 1) |-> SettledForce.x]
  /\ forceHistoryIndex \in {0, HISTORY_SIZE - 1}
  /\ stable_force_N = Mean(forceHistory)
  /\ bufferIsFull \in BOOLEAN
  /\ \E back \in WrapBack, age \in WrapAges :
       /\ clock = U32Sub(U32(0), U32(back))
       /\ lastSendTime = U32Sub(U32Sub(U32(0), U32(back)), U32(age))
       /\ sinceLast = age
       /\ sinceTick = age
  /\ rx = <<>>
  /\ forceIn = <<SteadyAdc>>
  /\ env = [delays |-> WrapDelays, skews |-> 0..MaxSkew,
            pressure |-> {SteadyAdc}, horizon |-> WrapIters,
            histories |-> TRUE]
  /\ serialOut = <<ReadyLine>>
  /\ iter = 0
  /\ fed = <<>>
  /\ delivered = <<>>
  /\ forcePushed = <<>>
  /\ distPushed = <<>>
  /\ pressureReads = <<>>
  /\ ticks = 0

\* loop() alone: setup() has long returned.
NextLoop == processDistanceSensor \/ processForceSensor \/ millis \/ loop

SpecWrap == InitWrap /\ [][NextLoop]_vars

(***************************************************************************)
(* Runs of SimpleKalmanFilter on its own: a filter constructed with any of *)
(* the parameters below (the sketch's 0.01, 0.1, 0.5 among them; zero, the *)
(* smallest and the largest binary32 numbers) receives up to FilterCalls   *)
(* calls of update with any of the measurements below.  The filter is held *)
(* in distanceKalman, the calls are recorded in delivered; setup and loop  *)
(* do not run (pc is "update" once the filter is constructed).            *)
(***************************************************************************)
FilterCalls == 3

FMax == [s |-> 0, m |-> Pow2(MantBits) - 1, e |-> EMax]
FMinSub == [s |-> 0, m |-> 1, e |-> EMin]

\* 2^100: with Q this large P / (P + R) rounds to 1 and P + Q stays finite.
FTwoTo100 == [s |-> 0, m |-> Pow2(MantBits - 1), e |-> 100 - (MantBits - 1)]
\* 3 * 2^103: FLT_MAX minus it rounds to a finite number, and added back
\* to it gives more than binary32 holds.
FThreeTwoTo103 ==
  [s |-> 0, m |-> 3 * Pow2(MantBits - 2), e |-> 104 - (MantBits - 1)]

FilterQ == {F0, F0_01, FTwoTo100, FMax}
FilterR == {FMinSub, F0_1, FMax}
FilterP == {F0, F0_5, FMax}
FilterZ == {F0, F100, FNeg(F100), FMinSub, FThreeTwoTo103, FMax, FNeg(FMax)}

InitFilter ==
  /\ InitProgram
  /\ rx = <<>>
  /\ forceIn = <<SteadyAdc>>
  /\ env = [delays |-> {StepMs}, skews |-> {0}, pressure |-> {SteadyAdc},
            horizon |-> FilterCalls, histories |-> TRUE]

\* SimpleKalmanFilter distanceKalman(q, r, p);
construct ==
  /\ pc = "setup"
  /\ \E q \in FilterQ, r \in FilterR, p \in FilterP :
       distanceKalman' = SimpleKalmanFilter(q, r, p)
  /\ pc' = "update"
  /\ UNCHANGED <<decoderVars, distanceHistory, distanceHistoryIndex,
                 stable_distance_mm, forceVars, bufferIsFull, timeVars, rx,
                 forceIn, serialOut, env, iter, fed, delivered, forcePushed,
                 distPushed, pressureReads>>

\* distanceKalman.update(z);
callUpdate ==
  /\ pc = "update"
  /\ iter < env.horizon
  /\ \E z \in FilterZ :
       /\ distanceKalman' = update(distanceKalman, z)
       /\ delivered' = Append(delivered,
             [at |-> iter + 1, payload |-> payloadBuffer, z |-> z])
  /\ iter' = iter + 1
  /\ UNCHANGED <<pc, decoderVars, distanceHistory, distanceHistoryIndex,
                 stable_distance_mm, forceVars, bufferIsFull, timeVars, rx,
                 forceIn, serialOut, env, fed, forcePushed, distPushed,
                 pressureReads>>

NextFilter == construct \/ callUpdate

SpecFilter == InitFilter /\ [][NextFilter]_vars

(***************************************************************************)
(* Every float of the state is zero, subnormal or normal and finite: the   *)
(* runs never need the infinities or NaN.                                  *)
(***************************************************************************)
FloatOK(f) ==
  /\ f.s \in {0, 1}
  /\ \/ f.m = 0 /\ f.e = 0
     \/ f.m > 0 /\ f.m < Pow2(MantBits - 1) /\ f.e = EMin
     \/ f.m >= Pow2(MantBits - 1) /\ f.m < Pow2(MantBits)
        /\ f.e >= EMin /\ f.e <= EMax

FloatsInRange ==
  /\ \A k \in {distanceKalman, forceKalman} :
       FloatOK(k.Q) /\ FloatOK(k.R) /\ FloatOK(k.P) /\ FloatOK(k.K) /\ FloatOK(k.x)
  /\ \A i \in 0..(HISTORY_SIZE - 1) :
       FloatOK(distanceHistory[i]) /\ FloatOK(forceHistory[i])
  /\ FloatOK(stable_distance_mm)
  /\ FloatOK(stable_force_N)
  /\ \A k \in 1..Len(delivered) : FloatOK(delivered[k].z)

TypeOK ==
  /\ pc \in {"setup", "processDistanceSensor", "processForceSensor", "millis", "if"}
  /\ state \in {"WAITING_FOR_AC", "WAITING_FOR_CA", "READING_PAYLOAD"}
  /\ payloadBuffer \in [0..(PAYLOAD_LEN - 1) -> Byte]
  /\ bufferIndex \in 0..PAYLOAD_LEN
  /\ distanceHistoryIndex \in 0..(HISTORY_SIZE - 1)
  /\ forceHistoryIndex \in 0..(HISTORY_SIZE - 1)
  /\ bufferIsFull \in BOOLEAN
  /\ lastSendTime \in (0..(Half - 1)) \X (0..(Half - 1))
  /\ clock \in (0..(Half - 1)) \X (0..(Half - 1))
  /\ \A k \in 1..Len(rx) : rx[k] \in Byte \cup {NoByte}
  /\ forceIn # <<>>
  /\ \A k \in 1..Len(forceIn) : forceIn[k] \in 0..ADC_MAX
  /\ iter \in 0..env.horizon
  /\ \A k \in 1..Len(pressureReads) : pressureReads[k] \in 0..ADC_MAX
  /\ FloatsInRange

(***************************************************************************)
(* The frames of a byte stream, read off the stream as a whole: the set of *)
(* positions whose byte ends a valid frame, for a search for the sync pair *)
(* that starts at position i.  A byte that follows 0xAC and is not 0xCA is *)
(* used up; after the pair come exactly PAYLOAD_LEN payload bytes.         *)
(***************************************************************************)
RECURSIVE FramesFrom(_, _)
FramesFrom(s, i) ==
  IF i > Len(s) THEN {}
  ELSE IF s[i] # SYNC_AC THEN FramesFrom(s, i + 1)
  ELSE IF i + 1 > Len(s) THEN {}
  ELSE IF s[i + 1] # SYNC_CA THEN FramesFrom(s, i + 2)
  ELSE IF i + 1 + PAYLOAD_LEN > Len(s) THEN {}
  ELSE (IF s[i + 7] # 0 /\ s[i + 8] = TRAILER_DC /\ s[i + 9] = TRAILER_CD
        THEN {i + 1 + PAYLOAD_LEN} ELSE {})
       \cup FramesFrom(s, i + 2 + PAYLOAD_LEN)

DeliveredAt == {delivered[k].at : k \in 1..Len(delivered)}

IsPrefix(s, t) == Len(s) <= Len(t) /\ \A k \in 1..Len(s) : s[k] = t[k]

(***************************************************************************)
(* C1 (as amended).  From the initial state, the ten bytes 0xAC 0xCA 0x00  *)
(* 0x00 0x00 0x27 0x10 0x01 0xDC 0xCD, one per invocation, deliver exactly *)
(* one measurement, 100.00, to the distance channel: update is called once *)
(* with 100.00 and distanceHistoryIndex goes from 0 to 1; nothing is       *)
(* delivered before the tenth byte.                                        *)
(***************************************************************************)
C1_TenByteFrameDelivers100 ==
  /\ (fed = FrameC1 =>
        /\ Len(delivered) = 1
        /\ delivered[1].z = F100
        /\ distanceHistoryIndex = 1)
  /\ (IsPrefix(fed, FrameC1) /\ fed # FrameC1 =>
        /\ delivered = <<>>
        /\ distanceHistoryIndex = 0)

C1_Witness == fed = FrameC1 /\ pc = "processForceSensor"

\* C1 as claimed: the nine bytes of specification section 8 deliver one
\* measurement of 100.00.
C1_NineBytesDeliver100 ==
  fed = NineBytes =>
    /\ Len(delivered) = 1
    /\ delivered[1].z = F100
    /\ distanceHistoryIndex = 1

(***************************************************************************)
(* C2.  For every byte stream, a measurement is delivered on a byte if and *)
(* only if that byte is the eighth payload byte after a 0xAC 0xCA sync     *)
(* pair and the payload has payload[5] # 0, payload[6] = 0xDC and          *)
(* payload[7] = 0xCD: the positions at which update was called are exactly *)
(* the ends of the valid frames of the bytes read so far.                  *)
(***************************************************************************)
C2_DeliveredIffValidFrame ==
  /\ DeliveredAt = FramesFrom(fed, 1)
  /\ Cardinality(DeliveredAt) = Len(delivered)

\* A frame with a zero sentinel was read and rejected, the frame after it
\* delivered.
C2_Witness ==
  /\ Len(fed) = 2 * (2 + PAYLOAD_LEN)
  /\ fed[8] = 0
  /\ DeliveredAt = {2 * (2 + PAYLOAD_LEN)}

(***************************************************************************)
(* C6.  The distance channel (filter, history, index, stabilised value)    *)
(* changes only in a step in which the decoder reads the byte that ends a  *)
(* valid frame, so stable_distance_mm is -1 until the first valid frame;   *)
(* a decoder step never changes the force channel.                         *)
(***************************************************************************)
C6_DistanceChannelFrame ==
  /\ [][/\ (distanceVars' # distanceVars =>
              /\ pc = "processDistanceSensor"
              /\ Len(fed') = Len(fed) + 1
              /\ Len(fed') \in FramesFrom(fed', 1))
        /\ (pc = "processDistanceSensor" => forceVars' = forceVars)]_vars
  /\ [](FramesFrom(fed, 1) = {} => stable_distance_mm = FNeg(F1))

\* An invalid frame has been read in full, force samples taken and a tick
\* made, and the distance channel is as it was initialised.
C6_Witness ==
  /\ Len(fed) > 1 + 2 + PAYLOAD_LEN
  /\ fed[1] = 1
  /\ FramesFrom(fed, 1) = {}
  /\ forcePushed # <<>>
  /\ ticks >= 1
  /\ stable_distance_mm = FNeg(F1)

\* (float) of the unsigned 32-bit value hi * 2^16 + lo.
UnsignedToFloat(hi, lo) ==
  IF hi < 4096 THEN FRound(0, hi * Half + lo, 0, FALSE)
  ELSE FRound(0, hi * 4096 + lo \div 16, 4, lo % 16 # 0)

(***************************************************************************)
(* C8 as claimed.  Every delivered measurement is the unsigned 32-bit      *)
(* big-endian integer payload[1..4], converted to float and divided by     *)
(* 100, for all byte values including payload[1] >= 0x80.                  *)
(***************************************************************************)
C8_MeasurementIsUnsignedOver100 ==
  \A k \in 1..Len(delivered) :
    LET p == delivered[k].payload
    IN  delivered[k].z =
          FDiv(UnsignedToFloat(p[1] * 256 + p[2], p[3] * 256 + p[4]), F100)

IsDataLine(l) == Len(l) = 3
IsReadyLine(l) == Len(l) = 1 /\ l[1] = "Arduino is Ready"
DataLines == Len(SelectSeq(serialOut, IsDataLine))
ReadyLines == Len(SelectSeq(serialOut, IsReadyLine))
ForceWrites == Len(forcePushed)
DistanceWrites == Len(distPushed)

(***************************************************************************)
(* C3.  While neither history window has received HISTORY_SIZE - 1 (19)    *)
(* writes, no data line has been written, whatever the timing of the       *)
(* iterations, the bytes and the ticks.                                    *)
(***************************************************************************)
C3_NoLineBeforeThreshold ==
  (ForceWrites < HISTORY_SIZE - 1 /\ DistanceWrites < HISTORY_SIZE - 1)
    => DataLines = 0

\* sendAllData has been called below the threshold.
C3_Witness ==
  /\ ticks >= 1
  /\ ForceWrites < HISTORY_SIZE - 1
  /\ DistanceWrites < HISTORY_SIZE - 1
  /\ DataLines = 0

(***************************************************************************)
(* C4 as claimed.  Once either window has received HISTORY_SIZE - 1 (19)   *)
(* writes, every call of sendAllData writes exactly one line.  The call    *)
(* that sets the latch is let off here, as section 4.5 of the              *)
(* specification has it print nothing; the claim fails all the same.       *)
(***************************************************************************)
C4_TickAfterThresholdEmits ==
  [][(/\ ticks' = ticks + 1
      /\ (ForceWrites >= HISTORY_SIZE - 1 \/ DistanceWrites >= HISTORY_SIZE - 1))
     => \/ DataLines' = DataLines + 1
        \/ (~bufferIsFull /\ bufferIsFull')]_vars

(***************************************************************************)
(* C5 (as amended).  A data line is written only once the force window is  *)
(* populated: in every state in which a data line has been written the     *)
(* force window has received at least HISTORY_SIZE - 1 (19) samples.  The  *)
(* distance window need not have received any.                             *)
(***************************************************************************)
C5_LineOnlyAfterForceWindow ==
  DataLines > 0 => ForceWrites >= HISTORY_SIZE - 1

\* A line has been written with no frame decoded: it carries -1.
C5_Witness ==
  /\ DataLines > 0
  /\ DistanceWrites = 0
  /\ serialOut[Len(serialOut)][2] = FNeg(F1)

\* C5 as claimed: a data line is written only once both windows have
\* received samples, so at least one valid frame has been decoded.
C5_BothWindowsPopulated ==
  DataLines > 0 => (ForceWrites > 0 /\ DistanceWrites > 0)

(***************************************************************************)
(* C9.  sendAllData is called in an iteration if and only if at least      *)
(* SEND_INTERVAL (100) ms have passed since the time lastSendTime holds    *)
(* (boot, before the first call); two calls in a row are at least          *)
(* SEND_INTERVAL ms apart, and so are two data lines, which only a call    *)
(* writes.                                                                 *)
(***************************************************************************)
C9_TickIffIntervalElapsed ==
  [][/\ (pc = "if" => ((ticks' = ticks + 1) <=> (sinceLast >= SEND_INTERVAL)))
     /\ (ticks' # ticks => (ticks' = ticks + 1 /\ pc = "if"
                            /\ sinceTick >= SEND_INTERVAL))
     /\ (DataLines' # DataLines => ticks' = ticks + 1)]_vars

\* A second call has been made, and an iteration has found the interval
\* not yet over.
C9_Witness == ticks >= 2 /\ pc = "if" /\ sinceLast < SEND_INTERVAL

(***************************************************************************)
(* C10.  The line "Arduino is Ready" is written once, by setup: before it  *)
(* nothing has been written, no byte read and no force sample taken, and   *)
(* from then on it is the first line and is not written again.             *)
(***************************************************************************)
C10_ReadyOnceAndFirst ==
  /\ (pc = "setup" =>
        /\ serialOut = <<>>
        /\ fed = <<>>
        /\ forcePushed = <<>>
        /\ iter = 0
        /\ ticks = 0)
  /\ (pc # "setup" =>
        /\ ReadyLines = 1
        /\ IsReadyLine(serialOut[1]))

\* Bytes read, force samples taken and a data line written after it.
C10_Witness ==
  /\ ReadyLines = 1
  /\ DataLines >= 1
  /\ fed # <<>>
  /\ forcePushed # <<>>

\* The window after the pushes of the sequence pushed, from the pushes alone.
WindowOf(pushed) ==
  LET n      == Len(pushed)
      recent == {j \in 1..n : j > n - HISTORY_SIZE}
  IN  [i \in 0..(HISTORY_SIZE - 1) |->
         IF \E j \in recent : (j - 1) % HISTORY_SIZE = i
         THEN pushed[CHOOSE j \in recent : (j - 1) % HISTORY_SIZE = i]
         ELSE F0]

RECURSIVE SumUpTo(_, _)
SumUpTo(w, i) == IF i < 0 THEN F0 ELSE FAdd(SumUpTo(w, i - 1), w[i])

MeanOfPushed(pushed) ==
  FDiv(SumUpTo(WindowOf(pushed), HISTORY_SIZE - 1), FromInt(HISTORY_SIZE))

(***************************************************************************)
(* C7.  After every push the stabilised value of a channel is the sum of   *)
(* the HISTORY_SIZE (20) slots divided by 20, a slot never written         *)
(* counting as 0: the slots hold the 20 most recent pushed values (all k   *)
(* of them and 20 - k zeros after k < 20 pushes), each at the place its    *)
(* push number gives it, and the sum runs over the slots in order.         *)
(***************************************************************************)
C7_StableIsWindowMean ==
  /\ (forcePushed # <<>> => stable_force_N = MeanOfPushed(forcePushed))
  /\ (distPushed # <<>> => stable_distance_mm = MeanOfPushed(distPushed))

\* Both windows have wrapped around, over values that differ.
C7_Witness ==
  /\ Len(forcePushed) > HISTORY_SIZE
  /\ Len(distPushed) > HISTORY_SIZE
  /\ distPushed[1] # distPushed[HISTORY_SIZE + 1]
  /\ forcePushed[1] # forcePushed[HISTORY_SIZE + 1]

(***************************************************************************)
(* C11.  bufferIsFull, once true, is true in every later state: no step,   *)
(* whatever it reads or writes and wherever the history indices stand,     *)
(* resets it.                                                              *)
(***************************************************************************)
C11_LatchIsPermanent == [][bufferIsFull => bufferIsFull']_vars

\* The latch is set, a line has been written since, and both history
\* indices have wrapped around to 0.
C11_Witness ==
  /\ bufferIsFull
  /\ DataLines >= 1
  /\ DistanceWrites >= HISTORY_SIZE
  /\ ForceWrites >= HISTORY_SIZE
  /\ distanceHistoryIndex = 0
  /\ forceHistoryIndex = 0

(***************************************************************************)
(* C12.  What a call of sendAllData does is fixed by bufferIsFull at its   *)
(* start.  Unset: no line is written and the pressure input is not read,   *)
(* also when this call sets the latch.  Set: the pressure input is read    *)
(* once and one line is written, carrying that reading rescaled.  No other *)
(* step reads the pressure input or writes a data line.                    *)
(***************************************************************************)
C12_TickOutputByStartState ==
  [][/\ (ticks' = ticks + 1 /\ ~bufferIsFull =>
          serialOut' = serialOut /\ pressureReads' = pressureReads)
     /\ (ticks' = ticks + 1 /\ bufferIsFull =>
          /\ Len(pressureReads') = Len(pressureReads) + 1
          /\ Len(serialOut') = Len(serialOut) + 1
          /\ DataLines' = DataLines + 1
          /\ serialOut'[Len(serialOut')][3] =
               processPressureSensor(pressureReads'[Len(pressureReads')]))
     /\ (ticks' = ticks =>
          pressureReads' = pressureReads /\ DataLines' = DataLines)]_vars

\* Calls that left the latch unset, the call that set it, and calls that
\* wrote a line.
C12_Witness ==
  /\ bufferIsFull
  /\ DataLines >= 1
  /\ ticks > DataLines + 1
  /\ Len(pressureReads) = DataLines

\* The byte read in a step that reads one.
ByteRead(f) == f[Len(f)]

(***************************************************************************)
(* C13.  A byte read in WAITING_FOR_CA takes the decoder to                *)
(* READING_PAYLOAD if it is 0xCA and to WAITING_FOR_AC otherwise, a        *)
(* repeated 0xAC included; either way bufferIndex becomes 0.               *)
(***************************************************************************)
C13_SecondSyncByte ==
  [][(state = "WAITING_FOR_CA" /\ Len(fed') = Len(fed) + 1) =>
       /\ state' = IF ByteRead(fed') = SYNC_CA THEN "READING_PAYLOAD"
                                                ELSE "WAITING_FOR_AC"
       /\ bufferIndex' = 0]_vars

\* After a frame (bufferIndex left at 8), 0xAC 0xAC: the second 0xAC has
\* sent the decoder back to WAITING_FOR_AC with bufferIndex 0.
C13_Witness ==
  /\ Len(fed) = 2 + PAYLOAD_LEN + 2
  /\ Len(delivered) = 1
  /\ fed[Len(fed) - 1] = SYNC_AC
  /\ fed[Len(fed)] = SYNC_AC
  /\ state = "WAITING_FOR_AC"
  /\ bufferIndex = 0

(***************************************************************************)
(* C14.  In READING_PAYLOAD every byte read, whatever its value, is stored *)
(* at bufferIndex and bufferIndex goes up by one; the decoder stays in     *)
(* READING_PAYLOAD until the eighth byte and goes to WAITING_FOR_AC on the *)
(* eighth, valid frame or not.  So in READING_PAYLOAD the last bufferIndex *)
(* (< 8) bytes read are the payload so far and follow a 0xAC 0xCA pair.    *)
(***************************************************************************)
C14_PayloadIsEightBytes ==
  /\ [][(state = "READING_PAYLOAD" /\ Len(fed') = Len(fed) + 1) =>
          /\ payloadBuffer' =
               [payloadBuffer EXCEPT ![bufferIndex] = ByteRead(fed')]
          /\ bufferIndex' = bufferIndex + 1
          /\ state' = IF bufferIndex + 1 = PAYLOAD_LEN THEN "WAITING_FOR_AC"
                                                       ELSE "READING_PAYLOAD"]_vars
  /\ [](state = "READING_PAYLOAD" =>
          /\ bufferIndex < PAYLOAD_LEN
          /\ Len(fed) >= bufferIndex + 2
          /\ fed[Len(fed) - bufferIndex - 1] = SYNC_AC
          /\ fed[Len(fed) - bufferIndex] = SYNC_CA
          /\ \A j \in 0..(bufferIndex - 1) :
               payloadBuffer[j] = fed[Len(fed) - bufferIndex + 1 + j])

\* A payload holding 0xAC and 0xCA and a zero sentinel has been read to its
\* eighth byte: nothing delivered, the decoder awaits 0xAC.
C14_Witness ==
  /\ fed = SyncInBadPayload
  /\ state = "WAITING_FOR_AC"
  /\ bufferIndex = PAYLOAD_LEN
  /\ delivered = <<>>

(***************************************************************************)
(* C18.  Whenever the decoder is in READING_PAYLOAD, where the next byte   *)
(* is stored at payloadBuffer[bufferIndex], bufferIndex is in 0..7: the    *)
(* store is inside the array.  bufferIndex is 8 only outside               *)
(* READING_PAYLOAD, after a frame, until the next byte read in             *)
(* WAITING_FOR_CA resets it.                                               *)
(***************************************************************************)
C18_StoreInsideBuffer ==
  /\ (state = "READING_PAYLOAD" => bufferIndex \in 0..(PAYLOAD_LEN - 1))
  /\ (bufferIndex = PAYLOAD_LEN => state # "READING_PAYLOAD" /\ fed # <<>>)

\* A frame has been read, leaving bufferIndex at 8 through WAITING_FOR_AC,
\* and five bytes of the next payload have been stored.
C18_Witness ==
  /\ Len(fed) = 2 * (2 + PAYLOAD_LEN) - 3
  /\ 2 + PAYLOAD_LEN \in FramesFrom(fed, 1)
  /\ state = "READING_PAYLOAD"
  /\ bufferIndex = PAYLOAD_LEN - 3

(***************************************************************************)
(* C15.  Both history indices are always in 0..HISTORY_SIZE - 1 and equal  *)
(* the number of pushes modulo HISTORY_SIZE.  A push stores its value at   *)
(* the index, changes no other slot, and advances the index by one modulo  *)
(* HISTORY_SIZE; once HISTORY_SIZE values have been pushed, the slot a     *)
(* push overwrites holds the oldest value still stored, the one pushed     *)
(* HISTORY_SIZE pushes before.  Nothing else changes a window.             *)
(***************************************************************************)
C15_RingBuffer ==
  /\ [](/\ forceHistoryIndex \in 0..(HISTORY_SIZE - 1)
        /\ distanceHistoryIndex \in 0..(HISTORY_SIZE - 1)
        /\ forceHistoryIndex = ForceWrites % HISTORY_SIZE
        /\ distanceHistoryIndex = DistanceWrites % HISTORY_SIZE)
  /\ [][/\ IF Len(forcePushed') = Len(forcePushed) + 1
           THEN /\ forceHistory' = [forceHistory EXCEPT
                      ![forceHistoryIndex] = forcePushed'[Len(forcePushed')]]
                /\ forceHistoryIndex' = (forceHistoryIndex + 1) % HISTORY_SIZE
                /\ (ForceWrites >= HISTORY_SIZE =>
                      forceHistory[forceHistoryIndex] =
                        forcePushed[ForceWrites - HISTORY_SIZE + 1])
           ELSE forceHistory' = forceHistory
                /\ forceHistoryIndex' = forceHistoryIndex
        /\ IF Len(distPushed') = Len(distPushed) + 1
           THEN /\ distanceHistory' = [distanceHistory EXCEPT
                      ![distanceHistoryIndex] = distPushed'[Len(distPushed')]]
                /\ distanceHistoryIndex' =
                     (distanceHistoryIndex + 1) % HISTORY_SIZE
                /\ (DistanceWrites >= HISTORY_SIZE =>
                      distanceHistory[distanceHistoryIndex] =
                        distPushed[DistanceWrites - HISTORY_SIZE + 1])
           ELSE distanceHistory' = distanceHistory
                /\ distanceHistoryIndex' = distanceHistoryIndex]_vars

\* The 21st value pushed into the distance window has replaced the first,
\* which differed from it, and the second is still stored.
C15_Witness ==
  /\ DistanceWrites = HISTORY_SIZE + 1
  /\ distanceHistoryIndex = 1
  /\ distanceHistory[0] = distPushed[HISTORY_SIZE + 1]
  /\ distanceHistory[0] # distPushed[1]
  /\ distanceHistory[1] = distPushed[2]
  /\ ForceWrites > HISTORY_SIZE

\* A step that is a call of update, and its measurement.
IsUpdateCall == Len(delivered') = Len(delivered) + 1
CallZ == delivered'[Len(delivered')].z

IsFinite(a) == a.e <= EMax

\* P += Q does not overflow (and P was a number).
CovarianceFinite(k) == IsFinite(FAdd(k.P, k.Q))

\* x is finite, and neither z - x nor x += K * (z - x) overflows.
EstimateFinite(k, z) ==
  /\ IsFinite(k.x)
  /\ IsFinite(FSub(z, k.x))
  /\ IsFinite(update(k, z).x)

GainInUnit(k) == FLe(F0, k.K) /\ FLe(k.K, F1)

\* |x1 - z| <= |x - z|: x1 lies between x and z, or it lies beyond z and
\* is nearer to it (its rounded distance is the smaller one).
ErrorNotUp(x, x1, z) ==
  \/ FLe(x, x1) /\ FLe(x1, z)
  \/ FLe(z, x1) /\ FLe(x1, x)
  \/ /\ (FLt(x, z) /\ FLt(z, x1)) \/ (FLt(x1, z) /\ FLt(z, x))
     /\ FLt(FAbs(FSub(x1, z)), FAbs(FSub(x, z)))

\* Every measurement so far has been the same.
ConstantInput == \A k \in 1..Len(delivered') : delivered'[k].z = CallZ

(***************************************************************************)
(* C16 (as amended).  For a filter constructed with Q >= 0, R > 0 and      *)
(* P >= 0: every call of update in which P + Q does not overflow leaves    *)
(* 0 <= K <= 1 and P >= 0; every call from a finite x in which neither     *)
(* z - x nor x + K * (z - x) overflows does not increase the error         *)
(* |x - z| with respect to its own measurement z (so not for a constant    *)
(* input either).                                                          *)
(***************************************************************************)
C16_GainCovarianceErrorFinite ==
  [][IsUpdateCall =>
       /\ CovarianceFinite(distanceKalman) =>
            /\ GainInUnit(distanceKalman')
            /\ FLe(F0, distanceKalman'.P)
       /\ EstimateFinite(distanceKalman, CallZ) =>
            ErrorNotUp(distanceKalman.x, distanceKalman'.x, CallZ)]_vars

\* The amendment without its last proviso (x + K * (z - x) may overflow
\* with P + Q and z - x finite) does not hold: with Q = 2^100 the gain is
\* 1, update(3 * 2^103) gives x = 3 * 2^103, and update(FLT_MAX) then adds
\* the rounded difference FLT_MAX - 2^104 to it, which is infinite.
EstimateFiniteWithoutSum ==
  [][(/\ IsUpdateCall
      /\ CovarianceFinite(distanceKalman)
      /\ IsFinite(distanceKalman.x)
      /\ IsFinite(FSub(CallZ, distanceKalman.x))) =>
       IsFinite(distanceKalman'.x)]_vars

\* Three calls with the same nonzero measurement on a filter with Q = 0:
\* the gain is strictly inside (0, 1) and the estimate has moved.
C16_Witness ==
  /\ Len(delivered) = FilterCalls
  /\ \A k \in 1..Len(delivered) : delivered[k].z = F100
  /\ distanceKalman.Q = F0
  /\ FLt(F0, distanceKalman.K)
  /\ FLt(distanceKalman.K, F1)
  /\ FLt(F0, distanceKalman.x)
  /\ FLt(distanceKalman.x, F100)

\* C16 as claimed: after any calls of update with any measurements
\* 0 <= K <= 1 and P >= 0, and for a constant input the error does not
\* increase from one call to the next.
C16_GainCovarianceError ==
  [][IsUpdateCall =>
       /\ GainInUnit(distanceKalman')
       /\ FLe(F0, distanceKalman'.P)
       /\ (ConstantInput =>
             ErrorNotUp(distanceKalman.x, distanceKalman'.x, CallZ))]_vars

(***************************************************************************)
(* C17 as claimed.  When loop() runs for ever, the clock advancing and the *)
(* force input sampled in every iteration, bufferIsFull eventually becomes *)
(* true (and only then can lines be written), whatever the time an         *)
(* iteration takes.                                                        *)
(***************************************************************************)
C17_EventuallyStreaming == <>bufferIsFull

\* update leaves SettledForce as it is, so the force channel of the runs of
\* SpecWrap stays at it.
ForceStaysSettled ==
  /\ update(SettledForce, SteadyForce) = SettledForce
  /\ forceKalman = SettledForce

\* From its construction the force filter reaches SettledForce under the
\* steady input (SpecLive).
ForceSettles == <>[](forceKalman = SettledForce)

\* millis() has overflowed since lastSendTime was assigned.
WrappedSinceLast == clock[1] = 0 /\ lastSendTime[1] = Half - 1

(***************************************************************************)
(* C19.  Across the overflow of millis() from 2^32 - 1 to 0 the test       *)
(* millis() - lastSendTime >= SEND_INTERVAL, taken modulo 2^32, holds      *)
(* exactly when at least SEND_INTERVAL ms have really passed since         *)
(* lastSendTime was assigned: sendAllData is called in an iteration if and *)
(* only if they have, so no call comes early, and at the start of every    *)
(* iteration fewer than SEND_INTERVAL ms have gone by without a call, so   *)
(* the calls do not stop.                                                  *)
(***************************************************************************)
C19_DueAcrossOverflow ==
  /\ [][pc = "if" =>
          /\ (Due(clock) <=> sinceLast >= SEND_INTERVAL)
          /\ ((ticks' = ticks + 1) <=> sinceLast >= SEND_INTERVAL)
          /\ (ticks' # ticks => ticks' = ticks + 1)]_vars
  /\ [](pc \in {"processDistanceSensor", "processForceSensor", "millis"} =>
          sinceLast < SEND_INTERVAL)

\* A call has been made before the overflow and the next one after it:
\* the test was met with millis() past 0 and lastSendTime before.
C19_Witness ==
  /\ ticks >= 2
  /\ clock[1] = 0
  /\ lastSendTime[1] = 0
  /\ sinceLast = 0
  /\ clock[2] < SEND_INTERVAL \div 2

=============================================================================
